---- MODULE Spec2Model ----
(***************************************************************************)
(* Model of the request-interception layer of the Vaperelax theme          *)
(* (src/src/assets/js/main.js): the service worker's lifecycle, its fetch  *)
(* listeners and caching strategies, the offline fallback, the background  *)
(* sync of the 'failed-requests' store, and the page's addToCart and       *)
(* search input.                                                           *)
(*                                                                         *)
(* Every `await` of the source is a suspension point: the code between two *)
(* awaits is one atomic action.  A cache operation that the code awaits    *)
(* takes effect in the action that resumes after it; a cache.put that the  *)
(* code does not await is queued in pendingPuts and commits in PutCommit.  *)
(***************************************************************************)
EXTENDS Integers, Sequences, FiniteSets, TLC

VARIABLES
    phase,          \* lifecycle state of this worker version
    skipWaitingCalled, \* self.skipWaiting() has been called
    oldInUse,       \* an older version still controls a page
    installFailed,  \* cache.addAll rejected during install
    doomed,         \* partitions the running activate pass has still to delete
    caches,         \* CacheStorage: name -> [exists, gen, entries]
    events,         \* fetch events: e -> [dispatched, req, responder, afterWrite]
    inv,            \* handleRequest invocations: <<e, listener>> -> record
    pendingPuts,    \* cache.put calls issued and not yet committed
    clears,         \* CLEAR_CACHE messages handled so far
    batch,          \* cacheUrls runs: r -> [pc, urls, k, gen, outcomes, after]
    skipMessage,    \* a SKIP_WAITING message has been handled
    queue,          \* the 'failed-requests' object store, in key (id) order
    sync,           \* the running doBackgroundSync pass
    cart,           \* the page's add-to-cart buttons
    search          \* the page's search input and its results container

vars == <<phase, skipWaitingCalled, oldInUse, installFailed, doomed, caches,
          events, inv, pendingPuts, clears, batch, skipMessage, queue, sync, cart,
          search>>

lifeVars == <<phase, skipWaitingCalled, oldInUse, installFailed, doomed, skipMessage>>
msgVars == <<clears, batch>>
fetchVars == <<events, inv, pendingPuts>>
pageVars == <<queue, sync, cart, search>>

----------------------------------------------------------------------------
(* Bounds of the model *)

MaxEvents == 2      \* fetch events in one behaviour
NumBodies == 1      \* distinct bodies the network may answer with
MaxClears == 1      \* CLEAR_CACHE messages in one behaviour
NumButtons == 2     \* add-to-cart buttons of the page
MaxClicks == 3      \* activations of one button in one behaviour
MaxSyncs == 2       \* sync events in one behaviour
MaxQueue == 3       \* records in the 'failed-requests' store at start
MaxBatches == 2     \* CACHE_URLS messages in one behaviour
MaxUrls == 2        \* URLs in the list of one CACHE_URLS message
NumQueries == 2     \* distinct queries of two characters or more
MaxInputs == 3      \* input events of the search input in one behaviour

----------------------------------------------------------------------------
(* Partition names, main.js:838-841 *)

CACHE_NAME == "vaperelax-v1.0.0"
STATIC_CACHE == "vaperelax-static-v1"
DYNAMIC_CACHE == "vaperelax-dynamic-v1"
IMAGE_CACHE == "vaperelax-images-v1"

KnownPartitions == {STATIC_CACHE, DYNAMIC_CACHE, IMAGE_CACHE}
CacheNames == KnownPartitions \cup {CACHE_NAME}

(* URLs *)
UrlRoot == "/"
UrlCss == "/assets/css/main.css"
UrlJs == "/assets/js/main.js"
UrlFont == "/assets/fonts/arabic-font.woff2"
UrlLogo == "/assets/images/logo.png"
UrlPlaceholder == "/assets/images/placeholder-product.jpg"
UrlOffline == "/offline.html"
UrlPhoto == "/uploads/p.jpg"
UrlCartCount == "/api/cart/count"
UrlCartAdd == "/api/cart/add"
UrlSearch == "/search"
UrlProduct == "/products/1"
UrlAbout == "/about"
UrlBanner == "/assets/images/banner.png"
UrlApiProduct == "/api/products/1"
UrlProductPhoto == "/products/1.jpg"

(* main.js:844-852 *)
STATIC_ASSETS ==
    {UrlRoot, UrlCss, UrlJs, UrlFont, UrlLogo, UrlPlaceholder, UrlOffline}

Urls == STATIC_ASSETS \cup
        {UrlPhoto, UrlCartCount, UrlCartAdd, UrlSearch, UrlProduct, UrlAbout,
         UrlBanner, UrlApiProduct, UrlProductPhoto}

(* new URL(request.url).pathname, as the sequence of its characters *)
Pathname(url) ==
    CASE url = UrlRoot -> <<"/">>
      [] url = UrlCss -> <<"/","a","s","s","e","t","s","/","c","s","s","/","m","a","i","n",".","c","s","s">>
      [] url = UrlJs -> <<"/","a","s","s","e","t","s","/","j","s","/","m","a","i","n",".","j","s">>
      [] url = UrlFont -> <<"/","a","s","s","e","t","s","/","f","o","n","t","s","/","a","r","a","b","i","c","-","f","o","n","t",".","w","o","f","f","2">>
      [] url = UrlLogo -> <<"/","a","s","s","e","t","s","/","i","m","a","g","e","s","/","l","o","g","o",".","p","n","g">>
      [] url = UrlPlaceholder -> <<"/","a","s","s","e","t","s","/","i","m","a","g","e","s","/","p","l","a","c","e","h","o","l","d","e","r","-","p","r","o","d","u","c","t",".","j","p","g">>
      [] url = UrlOffline -> <<"/","o","f","f","l","i","n","e",".","h","t","m","l">>
      [] url = UrlPhoto -> <<"/","u","p","l","o","a","d","s","/","p",".","j","p","g">>
      [] url = UrlCartCount -> <<"/","a","p","i","/","c","a","r","t","/","c","o","u","n","t">>
      [] url = UrlCartAdd -> <<"/","a","p","i","/","c","a","r","t","/","a","d","d">>
      [] url = UrlSearch -> <<"/","s","e","a","r","c","h">>
      [] url = UrlProduct -> <<"/","p","r","o","d","u","c","t","s","/","1">>
      [] url = UrlAbout -> <<"/","a","b","o","u","t">>
      [] url = UrlBanner -> <<"/","a","s","s","e","t","s","/","i","m","a","g","e","s","/","b","a","n","n","e","r",".","p","n","g">>
      [] url = UrlApiProduct -> <<"/","a","p","i","/","p","r","o","d","u","c","t","s","/","1">>
      [] url = UrlProductPhoto -> <<"/","p","r","o","d","u","c","t","s","/","1",".","j","p","g">>

(* main.js:855-884 *)
CACHE_STRATEGIES ==
    [static |-> << <<"/","a","s","s","e","t","s","/">>,
                   <<"/","f","o","n","t","s","/">> >>,
     networkFirst |-> << <<"/","a","p","i","/">>,
                         <<"/","s","e","a","r","c","h">> >>,
     cacheFirst |-> << <<"/","i","m","a","g","e","s","/">>,
                       <<".","j","p","g">>, <<".","j","p","e","g">>,
                       <<".","p","n","g">>, <<".","w","e","b","p">>,
                       <<".","s","v","g">> >>,
     staleWhileRevalidate |-> << <<"/","p","r","o","d","u","c","t","s","/">>,
                                 <<"/","c","a","t","e","g","o","r","i","e","s","/">>,
                                 <<"/","b","r","a","n","d","s","/">> >>]

(* String.prototype.includes / endsWith on character sequences *)
Includes(s, pat) ==
    \E i \in 1..(Len(s) - Len(pat) + 1) : SubSeq(s, i, i + Len(pat) - 1) = pat

EndsWith(s, pat) ==
    /\ Len(pat) <= Len(s)
    /\ SubSeq(s, Len(s) - Len(pat) + 1, Len(s)) = pat

(* main.js:1094-1110 *)
isStaticAsset(pathname) ==
    \E k \in 1..Len(CACHE_STRATEGIES.static) :
        Includes(pathname, CACHE_STRATEGIES.static[k])

isImage(pathname) ==
    \E k \in 1..Len(CACHE_STRATEGIES.cacheFirst) :
        \/ Includes(pathname, CACHE_STRATEGIES.cacheFirst[k])
        \/ EndsWith(pathname, CACHE_STRATEGIES.cacheFirst[k])

isApiCall(pathname) ==
    \E k \in 1..Len(CACHE_STRATEGIES.networkFirst) :
        Includes(pathname, CACHE_STRATEGIES.networkFirst[k])

isPage(pathname) ==
    \E k \in 1..Len(CACHE_STRATEGIES.staleWhileRevalidate) :
        Includes(pathname, CACHE_STRATEGIES.staleWhileRevalidate[k])

----------------------------------------------------------------------------
(* Responses *)

Bodies == 1..NumBodies

NetResp(s, b) == [kind |-> "net", status |-> s, body |-> b]
(* what cache.match resolves to on a miss, and what a function returns      *)
(* when it falls off its end                                                *)
Undefined == [kind |-> "undefined", status |-> 0, body |-> 0]
(* a rejected fetch() *)
NetFail == [kind |-> "fail", status |-> 0, body |-> 0]
(* main.js:1078-1090 *)
Synth503 == [kind |-> "synth", status |-> 503, body |-> 0]

(* Response.ok *)
Ok(resp) == resp.kind = "net" /\ resp.status >= 200 /\ resp.status <= 299

NetOutcomes == {NetResp(200, b) : b \in Bodies} \cup {NetResp(404, 1), NetFail}

----------------------------------------------------------------------------
(* Requests *)

FetchUrls == {UrlCss, UrlPhoto, UrlCartCount, UrlProduct, UrlAbout}

Request(u, m, s, md) == [url |-> u, method |-> m, scheme |-> s, mode |-> md]

Requests ==
    {Request(u, "GET", "https:", md) : u \in FetchUrls, md \in {"navigate", "cors"}}
    \cup {Request(UrlCartAdd, "POST", "https:", "cors"),
          Request(UrlCss, "GET", "chrome-extension:", "no-cors")}

NoRequest == Request(UrlRoot, "NONE", "none:", "none")

(* url.protocol.startsWith('http') *)
IsHttp(req) == req.scheme \in {"http:", "https:"}

(* The Cache API stores and matches GET http(s) requests only: cache.match  *)
(* of another request resolves to undefined and cache.put of it rejects.    *)
Cacheable(req) == req.method = "GET" /\ IsHttp(req)

----------------------------------------------------------------------------
(* The cache store *)

(* the entries of a partition: a function from the stored URLs to their     *)
(* responses                                                                *)
NoEntries == [u \in {} |-> Undefined]

Lookup(entries, url) == IF url \in DOMAIN entries THEN entries[url] ELSE Undefined

Stored(entries, url, resp) ==
    [u \in DOMAIN entries \cup {url} |-> IF u = url THEN resp ELSE entries[u]]

(* caches.open(name): creates the partition when it does not exist *)
Opened(cs, name) ==
    IF cs[name].exists THEN cs
    ELSE [cs EXCEPT ![name] = [exists |-> TRUE, gen |-> @.gen, entries |-> NoEntries]]

(* cache.match(request) on the partition `name` *)
Match(cs, name, req) ==
    IF cs[name].exists /\ Cacheable(req) THEN Lookup(cs[name].entries, req.url)
    ELSE Undefined

(* cache.match(url) with a URL string, as handleOffline does *)
MatchUrl(cs, name, url) ==
    IF cs[name].exists THEN Lookup(cs[name].entries, url) ELSE Undefined

(* caches.delete(name): handles opened before the deletion keep pointing at *)
(* the deleted cache object, so the generation of the name changes          *)
Deleted(cs, name) ==
    [cs EXCEPT ![name] = [exists |-> FALSE,
                          gen |-> IF @.exists THEN @.gen + 1 ELSE @.gen,
                          entries |-> NoEntries]]

(* cache.put(request, response) issued on a handle of generation gen *)
PutOf(name, gen, req, resp, by) ==
    [name |-> name, gen |-> gen, req |-> req, resp |-> resp, by |-> by]

IssuePut(puts, put) == IF Cacheable(put.req) THEN puts \cup {put} ELSE puts

----------------------------------------------------------------------------
(* handleRequest invocations *)

Listeners == {1, 2}
InvIds == (1..MaxEvents) \X Listeners

IdleInv ==
    [pc |-> "idle", req |-> NoRequest, gen |-> 0, cached |-> Undefined,
     net |-> Undefined, result |-> Undefined, settled |-> FALSE,
     fetched |-> FALSE, wrote |-> "no", cacheError |-> FALSE]

NoEvent == [dispatched |-> FALSE, req |-> NoRequest, responder |-> 0, afterWrite |-> FALSE]

(* handleRequest testing isImage before isStaticAsset *)
HandleRequestDispatchImageFirst(pathname) ==
    IF isImage(pathname) THEN [strategy |-> "cacheFirst", cache |-> IMAGE_CACHE]
    ELSE IF isStaticAsset(pathname) THEN [strategy |-> "cacheFirst", cache |-> STATIC_CACHE]
    ELSE IF isApiCall(pathname) THEN [strategy |-> "networkFirst", cache |-> DYNAMIC_CACHE]
    ELSE IF isPage(pathname) THEN [strategy |-> "staleWhileRevalidate", cache |-> DYNAMIC_CACHE]
    ELSE [strategy |-> "networkFirst", cache |-> DYNAMIC_CACHE]

(* handleRequest, main.js:950-977: the strategy and the partition chosen    *)
(* for a path; the first matching test wins                                 *)
HandleRequestDispatch(pathname) ==
    IF isStaticAsset(pathname) THEN [strategy |-> "cacheFirst", cache |-> STATIC_CACHE]
    ELSE IF isImage(pathname) THEN [strategy |-> "cacheFirst", cache |-> IMAGE_CACHE]
    ELSE IF isApiCall(pathname) THEN [strategy |-> "networkFirst", cache |-> DYNAMIC_CACHE]
    ELSE IF isPage(pathname) THEN [strategy |-> "staleWhileRevalidate", cache |-> DYNAMIC_CACHE]
    ELSE [strategy |-> "networkFirst", cache |-> DYNAMIC_CACHE]

(* the resource class of a path, in handleRequest's order of tests,         *)
(* main.js:956-976                                                          *)
Classify(pathname) ==
    IF isStaticAsset(pathname) THEN "static-asset"
    ELSE IF isImage(pathname) THEN "image"
    ELSE IF isApiCall(pathname) THEN "api-call"
    ELSE IF isPage(pathname) THEN "page"
    ELSE "unclassified"

ClassOf == [u \in Urls |-> Classify(Pathname(u))]

(* handleRequest's choice for each URL of the model *)
Dispatch == [u \in Urls |-> HandleRequestDispatch(Pathname(u))]
ImageUrls == {u \in Urls : isImage(Pathname(u))}

StrategyOf(req) == Dispatch[req.url].strategy
TargetCache(req) == Dispatch[req.url].cache

(* handleRequest up to its first await: cacheFirst and                      *)
(* staleWhileRevalidate suspend on caches.open, networkFirst on fetch       *)
StartedInv(req) ==
    LET st == StrategyOf(req) IN
    [IdleInv EXCEPT
        !.req = req,
        !.pc = CASE st = "cacheFirst" -> "cf_lookup"
                 [] st = "networkFirst" -> "nf_fetch"
                 [] st = "staleWhileRevalidate" -> "swr_lookup",
        !.fetched = (st = "networkFirst")]

(* the invocation whose promise was given to event.respondWith *)
Responded(e) == events[e].dispatched /\ inv[<<e, events[e].responder>>].settled

(* The two fetch listeners, main.js:932-947 and main.js:1271-1286, run in   *)
(* registration order on every fetch event.  The first returns early for a  *)
(* non-GET or non-http(s) request; the second calls handleRequest for every *)
(* request, and its respondWith throws when the first already responded.    *)
(* One behaviour follows the requests for one resource: the page repeats    *)
(* its request after the previous one was answered.                         *)
FetchEvent(e, req) ==
    /\ phase = "activated"
    /\ ~events[e].dispatched
    /\ e > 1 => Responded(e - 1) /\ req = events[1].req
    /\ LET first == req.method = "GET" /\ IsHttp(req) IN
       /\ events' = [events EXCEPT ![e] =
                        [dispatched |-> TRUE, req |-> req,
                         responder |-> IF first THEN 1 ELSE 2,
                         afterWrite |-> (e > 1 /\ inv[<<e - 1, events[e - 1].responder>>].wrote = "committed")]]
       /\ inv' = [inv EXCEPT
                     ![<<e, 1>>] = IF first THEN StartedInv(req) ELSE @,
                     ![<<e, 2>>] = StartedInv(req)]
    /\ UNCHANGED <<lifeVars, caches, pendingPuts, msgVars, pageVars>>

(* cacheFirst starting a network request on a hit as well *)
CacheFirstLookupRevalidates(i) ==
    /\ inv[i].pc = "cf_lookup"
    /\ LET name == TargetCache(inv[i].req)
           cs == Opened(caches, name)
           cachedResponse == Match(cs, name, inv[i].req) IN
       /\ caches' = cs
       /\ inv' = [inv EXCEPT ![i] =
                     IF cachedResponse # Undefined
                     THEN [@ EXCEPT !.pc = "done", !.cached = cachedResponse,
                                    !.result = cachedResponse, !.settled = TRUE,
                                    !.fetched = TRUE]
                     ELSE [@ EXCEPT !.pc = "cf_fetch", !.gen = cs[name].gen,
                                    !.fetched = TRUE]]
    /\ UNCHANGED <<lifeVars, events, pendingPuts, msgVars, pageVars>>

(* cacheFirst, main.js:985-992: open the partition and look the request up *)
CacheFirstLookup(i) ==
    /\ inv[i].pc = "cf_lookup"
    /\ LET name == TargetCache(inv[i].req)
           cs == Opened(caches, name)
           cachedResponse == Match(cs, name, inv[i].req) IN
       /\ caches' = cs
       /\ inv' = [inv EXCEPT ![i] =
                     IF cachedResponse # Undefined
                     THEN [@ EXCEPT !.pc = "done", !.cached = cachedResponse,
                                    !.result = cachedResponse, !.settled = TRUE]
                     ELSE [@ EXCEPT !.pc = "cf_fetch", !.gen = cs[name].gen,
                                    !.fetched = TRUE]]
    /\ UNCHANGED <<lifeVars, events, pendingPuts, msgVars, pageVars>>

(* cacheFirst, main.js:994-1006: the network answered or failed *)
CacheFirstNetwork(i, networkResponse) ==
    /\ inv[i].pc = "cf_fetch"
    /\ IF networkResponse = NetFail
       THEN /\ inv' = [inv EXCEPT ![i] = [@ EXCEPT !.pc = "offline", !.net = NetFail]]
            /\ UNCHANGED pendingPuts
       ELSE /\ pendingPuts' =
                  IF Ok(networkResponse)
                  THEN IssuePut(pendingPuts,
                                PutOf(TargetCache(inv[i].req), inv[i].gen,
                                      inv[i].req, networkResponse, i))
                  ELSE pendingPuts
            /\ inv' = [inv EXCEPT ![i] =
                          [@ EXCEPT !.pc = "done", !.net = networkResponse,
                                    !.result = networkResponse, !.settled = TRUE]]
    /\ UNCHANGED <<lifeVars, caches, events, msgVars, pageVars>>

(* networkFirst falling back to the partition on any response that is not   *)
(* ok                                                                       *)
NetworkFirstNetworkFallsBackOnError(i, networkResponse) ==
    /\ inv[i].pc = "nf_fetch"
    /\ inv' = [inv EXCEPT ![i] =
                  IF Ok(networkResponse)
                  THEN [@ EXCEPT !.pc = "nf_put", !.net = networkResponse]
                  ELSE [@ EXCEPT !.pc = "nf_fallback", !.net = networkResponse]]
    /\ UNCHANGED <<lifeVars, caches, events, pendingPuts, msgVars, pageVars>>

(* networkFirst, main.js:1011-1014 and 1020-1022 *)
NetworkFirstNetwork(i, networkResponse) ==
    /\ inv[i].pc = "nf_fetch"
    /\ inv' = [inv EXCEPT ![i] =
                  IF networkResponse = NetFail
                  THEN [@ EXCEPT !.pc = "nf_fallback", !.net = NetFail]
                  ELSE IF Ok(networkResponse)
                  THEN [@ EXCEPT !.pc = "nf_put", !.net = networkResponse]
                  ELSE [@ EXCEPT !.pc = "done", !.net = networkResponse,
                                 !.result = networkResponse, !.settled = TRUE]]
    /\ UNCHANGED <<lifeVars, caches, events, pendingPuts, msgVars, pageVars>>

(* networkFirst storing into the static partition *)
NetworkFirstPutWrongCache(i) ==
    /\ inv[i].pc = "nf_put"
    /\ LET cs == Opened(caches, STATIC_CACHE) IN
       /\ caches' = cs
       /\ pendingPuts' = IssuePut(pendingPuts,
                                  PutOf(STATIC_CACHE, cs[STATIC_CACHE].gen,
                                        inv[i].req, inv[i].net, i))
       /\ inv' = [inv EXCEPT ![i] =
                     [@ EXCEPT !.pc = "done", !.gen = cs[STATIC_CACHE].gen,
                               !.result = inv[i].net, !.settled = TRUE]]
    /\ UNCHANGED <<lifeVars, events, msgVars, pageVars>>

(* networkFirst, main.js:1016-1020: after caches.open, put and return *)
NetworkFirstPut(i) ==
    /\ inv[i].pc = "nf_put"
    /\ LET name == TargetCache(inv[i].req)
           cs == Opened(caches, name) IN
       /\ caches' = cs
       /\ pendingPuts' = IssuePut(pendingPuts,
                                  PutOf(name, cs[name].gen, inv[i].req, inv[i].net, i))
       /\ inv' = [inv EXCEPT ![i] =
                     [@ EXCEPT !.pc = "done", !.gen = cs[name].gen,
                               !.result = inv[i].net, !.settled = TRUE]]
    /\ UNCHANGED <<lifeVars, events, msgVars, pageVars>>

(* networkFirst, main.js:1024-1031: the cache lookup after a failed fetch *)
NetworkFirstFallback(i) ==
    /\ inv[i].pc = "nf_fallback"
    /\ LET name == TargetCache(inv[i].req)
           cs == Opened(caches, name)
           cachedResponse == Match(cs, name, inv[i].req) IN
       /\ caches' = cs
       /\ inv' = [inv EXCEPT ![i] =
                     IF cachedResponse # Undefined
                     THEN [@ EXCEPT !.pc = "done", !.cached = cachedResponse,
                                    !.result = cachedResponse, !.settled = TRUE]
                     ELSE [@ EXCEPT !.pc = "offline"]]
    /\ UNCHANGED <<lifeVars, events, pendingPuts, msgVars, pageVars>>

(* staleWhileRevalidate, main.js:1037-1055: lookup, start the fetch, and    *)
(* return the cached response when there is one                             *)
SwrLookup(i) ==
    /\ inv[i].pc = "swr_lookup"
    /\ LET name == TargetCache(inv[i].req)
           cs == Opened(caches, name)
           cachedResponse == Match(cs, name, inv[i].req) IN
       /\ caches' = cs
       /\ inv' = [inv EXCEPT ![i] =
                     IF cachedResponse # Undefined
                     THEN [@ EXCEPT !.pc = "swr_bg", !.gen = cs[name].gen,
                                    !.fetched = TRUE, !.cached = cachedResponse,
                                    !.result = cachedResponse, !.settled = TRUE]
                     ELSE [@ EXCEPT !.pc = "swr_wait", !.gen = cs[name].gen,
                                    !.fetched = TRUE]]
    /\ UNCHANGED <<lifeVars, events, pendingPuts, msgVars, pageVars>>

(* what networkResponsePromise resolves to, main.js:1041-1050: the .catch   *)
(* handler logs and returns nothing                                         *)
SwrPromiseValue(networkResponse) ==
    IF networkResponse = NetFail THEN Undefined ELSE networkResponse

(* staleWhileRevalidate putting the cached response back instead of the     *)
(* network response                                                         *)
SwrNetworkStoresCached(i, networkResponse) ==
    /\ inv[i].pc \in {"swr_bg", "swr_wait"}
    /\ pendingPuts' =
          IF Ok(networkResponse) /\ inv[i].cached # Undefined
          THEN IssuePut(pendingPuts,
                        PutOf(TargetCache(inv[i].req), inv[i].gen,
                              inv[i].req, inv[i].cached, i))
          ELSE pendingPuts
    /\ inv' = [inv EXCEPT ![i] =
                  IF inv[i].pc = "swr_wait"
                  THEN [@ EXCEPT !.pc = "done", !.net = networkResponse,
                                 !.result = SwrPromiseValue(networkResponse),
                                 !.settled = TRUE]
                  ELSE [@ EXCEPT !.pc = "done", !.net = networkResponse]]
    /\ UNCHANGED <<lifeVars, caches, events, msgVars, pageVars>>

(* staleWhileRevalidate handing the refreshed response to a caller that    *)
(* already has the cached one                                               *)
SwrNetworkOverwritesResult(i, networkResponse) ==
    /\ inv[i].pc \in {"swr_bg", "swr_wait"}
    /\ pendingPuts' =
          IF Ok(networkResponse)
          THEN IssuePut(pendingPuts,
                        PutOf(TargetCache(inv[i].req), inv[i].gen,
                              inv[i].req, networkResponse, i))
          ELSE pendingPuts
    /\ inv' = [inv EXCEPT ![i] =
                  [@ EXCEPT !.pc = "done", !.net = networkResponse,
                            !.result = SwrPromiseValue(networkResponse),
                            !.settled = TRUE]]
    /\ UNCHANGED <<lifeVars, caches, events, msgVars, pageVars>>

(* staleWhileRevalidate, main.js:1041-1050 and 1058: the fetch settles *)
SwrNetwork(i, networkResponse) ==
    /\ inv[i].pc \in {"swr_bg", "swr_wait"}
    /\ pendingPuts' =
          IF Ok(networkResponse)
          THEN IssuePut(pendingPuts,
                        PutOf(TargetCache(inv[i].req), inv[i].gen,
                              inv[i].req, networkResponse, i))
          ELSE pendingPuts
    /\ inv' = [inv EXCEPT ![i] =
                  IF inv[i].pc = "swr_wait"
                  THEN [@ EXCEPT !.pc = "done", !.net = networkResponse,
                                 !.result = SwrPromiseValue(networkResponse),
                                 !.settled = TRUE]
                  ELSE [@ EXCEPT !.pc = "done", !.net = networkResponse]]
    /\ UNCHANGED <<lifeVars, caches, events, msgVars, pageVars>>

(* handleOffline testing the image patterns before the request mode *)
HandleOfflineResultImageFirst(cs, req) ==
    IF req.url \in ImageUrls THEN MatchUrl(cs, STATIC_CACHE, UrlPlaceholder)
    ELSE IF req.mode = "navigate" THEN MatchUrl(cs, STATIC_CACHE, UrlOffline)
    ELSE Synth503

(* handleOffline, main.js:1062-1091 *)
HandleOfflineResult(cs, req) ==
    IF req.mode = "navigate" THEN MatchUrl(cs, STATIC_CACHE, UrlOffline)
    ELSE IF req.url \in ImageUrls THEN MatchUrl(cs, STATIC_CACHE, UrlPlaceholder)
    ELSE Synth503

(* handleRequest's catch, main.js:978-981, running handleOffline *)
HandleOffline(i) ==
    /\ inv[i].pc = "offline"
    /\ LET req == inv[i].req
           cs == IF req.mode = "navigate" \/ req.url \in ImageUrls
                 THEN Opened(caches, STATIC_CACHE) ELSE caches IN
       /\ caches' = cs
       /\ inv' = [inv EXCEPT ![i] =
                     [@ EXCEPT !.pc = "done", !.result = HandleOfflineResult(cs, req),
                               !.settled = TRUE]]
    /\ UNCHANGED <<lifeVars, events, pendingPuts, msgVars, pageVars>>

(* the handle of the put still is the partition of that name *)
Attached(p) == caches[p.name].exists /\ caches[p.name].gen = p.gen

(* A cache.put that was issued commits: it replaces the entry of its        *)
(* request in the cache object its handle points at.  When the partition    *)
(* was deleted after the handle was opened, the write is not visible under  *)
(* the partition's name.  inv[..].wrote and events[..].afterWrite record    *)
(* the completion for the properties below.                                 *)
PutCommit(p) ==
    /\ p \in pendingPuts
    /\ pendingPuts' = pendingPuts \ {p}
    /\ caches' = IF Attached(p)
                 THEN [caches EXCEPT ![p.name].entries = Stored(@, p.req.url, p.resp)]
                 ELSE caches
    /\ inv' = [inv EXCEPT ![p.by].wrote = IF Attached(p) THEN "committed" ELSE "detached"]
    /\ UNCHANGED <<lifeVars, events, msgVars, pageVars>>

(* clearCache deleting every partition *)
ClearCacheAll(cacheName) ==
    /\ phase \in {"installed", "activating", "activated"}
    /\ clears < MaxClears
    /\ clears' = clears + 1
    /\ caches' = [n \in DOMAIN caches |-> Deleted(caches, n)[n]]
    /\ UNCHANGED <<lifeVars, events, inv, pendingPuts, batch, pageVars>>

(* clearCache emptying the 'failed-requests' store as well *)
ClearCacheAndQueue(cacheName) ==
    /\ phase \in {"installed", "activating", "activated"}
    /\ clears < MaxClears
    /\ clears' = clears + 1
    /\ caches' = Deleted(caches, cacheName)
    /\ queue' = << >>
    /\ UNCHANGED <<lifeVars, events, inv, pendingPuts, batch, sync, cart, search>>

(* clearCache, main.js:1242-1249, from the CLEAR_CACHE message,             *)
(* main.js:1217-1221                                                        *)
ClearCache(cacheName) ==
    /\ phase \in {"installed", "activating", "activated"}
    /\ clears < MaxClears
    /\ clears' = clears + 1
    /\ caches' = Deleted(caches, cacheName)
    /\ UNCHANGED <<lifeVars, events, inv, pendingPuts, batch, pageVars>>

----------------------------------------------------------------------------
(* Cache-store operations that reject (quota, storage errors) *)

(* what the promise given to respondWith settles to when handleRequest      *)
(* itself rejects                                                           *)
Rejected == [kind |-> "rejected", status |-> 0, body |-> 0]

(* cacheFirst, main.js:986-987: caches.open or cache.match rejects; nothing *)
(* in cacheFirst catches it, so handleRequest's catch runs handleOffline    *)
CacheFirstStoreFails(i) ==
    /\ inv[i].pc = "cf_lookup"
    /\ inv' = [inv EXCEPT ![i] = [@ EXCEPT !.pc = "offline", !.cacheError = TRUE]]
    /\ UNCHANGED <<lifeVars, caches, events, pendingPuts, msgVars, pageVars>>

(* staleWhileRevalidate, main.js:1037-1038: caches.open or cache.match      *)
(* rejects before the fetch is started                                      *)
SwrStoreFails(i) ==
    /\ inv[i].pc = "swr_lookup"
    /\ inv' = [inv EXCEPT ![i] = [@ EXCEPT !.pc = "offline", !.cacheError = TRUE]]
    /\ UNCHANGED <<lifeVars, caches, events, pendingPuts, msgVars, pageVars>>

(* networkFirst, main.js:1016 and 1021-1024: caches.open rejects after an   *)
(* ok network response; the rejection is thrown inside the try, so the      *)
(* catch of networkFirst runs its cache lookup                              *)
NetworkFirstOpenFails(i) ==
    /\ inv[i].pc = "nf_put"
    /\ inv' = [inv EXCEPT ![i] = [@ EXCEPT !.pc = "nf_fallback", !.cacheError = TRUE]]
    /\ UNCHANGED <<lifeVars, caches, events, pendingPuts, msgVars, pageVars>>

(* networkFirst, main.js:1024-1025: caches.open or cache.match rejects in   *)
(* the catch; handleRequest's catch runs handleOffline                      *)
NetworkFirstFallbackFails(i) ==
    /\ inv[i].pc = "nf_fallback"
    /\ inv' = [inv EXCEPT ![i] = [@ EXCEPT !.pc = "offline", !.cacheError = TRUE]]
    /\ UNCHANGED <<lifeVars, caches, events, pendingPuts, msgVars, pageVars>>

(* handleOffline, main.js:1067-1068 and 1073-1074: caches.open or           *)
(* cache.match rejects; handleRequest rejects                               *)
HandleOfflineFails(i) ==
    /\ inv[i].pc = "offline"
    /\ inv[i].req.mode = "navigate" \/ inv[i].req.url \in ImageUrls
    /\ inv' = [inv EXCEPT ![i] =
                  [@ EXCEPT !.pc = "done", !.result = Rejected, !.settled = TRUE,
                            !.cacheError = TRUE]]
    /\ UNCHANGED <<lifeVars, caches, events, pendingPuts, msgVars, pageVars>>

(* a cache.put that was issued rejects: nothing is stored, and nothing      *)
(* awaits the promise                                                       *)
PutFails(p) ==
    /\ p \in pendingPuts
    /\ pendingPuts' = pendingPuts \ {p}
    /\ inv' = [inv EXCEPT ![p.by].wrote = "failed"]
    /\ UNCHANGED <<lifeVars, caches, events, msgVars, pageVars>>

----------------------------------------------------------------------------
(* cacheUrls, from the CACHE_URLS message *)

Batches == 1..MaxBatches

(* the URLs a page asks the worker to cache *)
BatchUrls == {UrlProduct, UrlAbout}

(* the lists event.data.urls can be *)
UrlLists == UNION {[1..n -> BatchUrls] : n \in 1..MaxUrls}

(* a run of cacheUrls: the list, the index k of the URL at hand, the       *)
(* generation of its cache handle, the responses its fetches got so far,   *)
(* and the dynamic partition's entries when the run returned               *)
IdleBatch ==
    [pc |-> "idle", urls |-> << >>, k |-> 0, gen |-> 0, outcomes |-> << >>,
     after |-> NoEntries]

(* message listener, main.js:1211-1215, and cacheUrls up to its first      *)
(* await, caches.open(DYNAMIC_CACHE), main.js:1226                         *)
CacheUrlsMessage(r, urls) ==
    /\ phase = "activated"
    /\ batch[r].pc = "idle"
    /\ r > 1 => batch[r - 1].pc # "idle"
    /\ batch' = [batch EXCEPT ![r] = [IdleBatch EXCEPT !.pc = "open", !.urls = urls]]
    /\ UNCHANGED <<lifeVars, caches, fetchVars, clears, pageVars>>

(* cacheUrls, main.js:1226-1230: the partition is open, the loop starts    *)
(* and suspends on the fetch of the first URL                              *)
CacheUrlsOpen(r) ==
    /\ batch[r].pc = "open"
    /\ LET cs == Opened(caches, DYNAMIC_CACHE) IN
       /\ caches' = cs
       /\ batch' = [batch EXCEPT ![r] =
                       [@ EXCEPT !.pc = "fetch", !.k = 1, !.gen = cs[DYNAMIC_CACHE].gen]]
    /\ UNCHANGED <<lifeVars, fetchVars, clears, pageVars>>

(* the for...of of main.js:1228 moves to the next URL, or cacheUrls        *)
(* returns after the last one                                              *)
NextUrl(b, cs) ==
    IF b.k < Len(b.urls)
    THEN [b EXCEPT !.pc = "fetch", !.k = @ + 1]
    ELSE [b EXCEPT !.pc = "done", !.after = cs[DYNAMIC_CACHE].entries]

(* cacheUrls storing whatever response the fetch gave *)
CacheUrlsFetchedAnyStatus(r, response) ==
    /\ batch[r].pc = "fetch"
    /\ LET b == [batch[r] EXCEPT !.outcomes = Append(@, response)] IN
       batch' = [batch EXCEPT ![r] =
                    IF response.kind = "net" THEN [b EXCEPT !.pc = "put"]
                    ELSE NextUrl(b, caches)]
    /\ UNCHANGED <<lifeVars, caches, fetchVars, clears, pageVars>>

(* cacheUrls stopping at the first URL whose fetch is rejected *)
CacheUrlsFetchedOrAbort(r, response) ==
    /\ batch[r].pc = "fetch"
    /\ LET b == [batch[r] EXCEPT !.outcomes = Append(@, response)] IN
       batch' = [batch EXCEPT ![r] =
                    IF Ok(response) THEN [b EXCEPT !.pc = "put"]
                    ELSE IF response = NetFail
                    THEN [b EXCEPT !.pc = "done", !.after = caches[DYNAMIC_CACHE].entries]
                    ELSE NextUrl(b, caches)]
    /\ UNCHANGED <<lifeVars, caches, fetchVars, clears, pageVars>>

(* cacheUrls, main.js:1230-1237: the fetch of urls[k] settles.  An ok      *)
(* response goes to `await cache.put`; another response is passed over; a  *)
(* rejection is caught and logged inside the loop.                         *)
CacheUrlsFetched(r, response) ==
    /\ batch[r].pc = "fetch"
    /\ LET b == [batch[r] EXCEPT !.outcomes = Append(@, response)] IN
       batch' = [batch EXCEPT ![r] =
                    IF Ok(response) THEN [b EXCEPT !.pc = "put"]
                    ELSE NextUrl(b, caches)]
    /\ UNCHANGED <<lifeVars, caches, fetchVars, clears, pageVars>>

(* cacheUrls keeping the entry a URL already has *)
CacheUrlsPutIfAbsent(r) ==
    /\ batch[r].pc = "put"
    /\ LET b == batch[r]
           url == b.urls[b.k]
           attached == caches[DYNAMIC_CACHE].exists /\ caches[DYNAMIC_CACHE].gen = b.gen
           cs == IF attached /\ url \notin DOMAIN caches[DYNAMIC_CACHE].entries
                 THEN [caches EXCEPT ![DYNAMIC_CACHE].entries =
                          Stored(@, url, b.outcomes[b.k])]
                 ELSE caches IN
       /\ caches' = cs
       /\ batch' = [batch EXCEPT ![r] = NextUrl(b, cs)]
    /\ UNCHANGED <<lifeVars, fetchVars, clears, pageVars>>

(* cacheUrls, main.js:1232-1233: the awaited cache.put(url, response) has  *)
(* completed: it replaced the entry of the URL in the cache object of the  *)
(* run's handle                                                            *)
CacheUrlsPut(r) ==
    /\ batch[r].pc = "put"
    /\ LET b == batch[r]
           url == b.urls[b.k]
           attached == caches[DYNAMIC_CACHE].exists /\ caches[DYNAMIC_CACHE].gen = b.gen
           cs == IF attached
                 THEN [caches EXCEPT ![DYNAMIC_CACHE].entries =
                          Stored(@, url, b.outcomes[b.k])]
                 ELSE caches IN
       /\ caches' = cs
       /\ batch' = [batch EXCEPT ![r] = NextUrl(b, cs)]
    /\ UNCHANGED <<lifeVars, fetchVars, clears, pageVars>>

----------------------------------------------------------------------------
(* Lifecycle: install and activate *)

(* the content the install's fetch of a manifest URL gets: the offline page *)
(* and the placeholder image are told apart from the other assets           *)
InstallBody(url) ==
    CASE url = UrlOffline -> 0 - 1
      [] url = UrlPlaceholder -> 0 - 2
      [] OTHER -> 0

(* install listener, main.js:890-892: caches.open(STATIC_CACHE) *)
InstallOpen ==
    /\ phase = "parsed"
    /\ phase' = "installing"
    /\ caches' = Opened(caches, STATIC_CACHE)
    /\ UNCHANGED <<skipWaitingCalled, oldInUse, installFailed, doomed, skipMessage,
                   fetchVars, msgVars, pageVars>>

(* cache.addAll(urls): fetches every URL and stores all responses, or       *)
(* rejects and stores none when one fetch fails or is not ok                *)
AddAll(cs, name, urls, failing) ==
    IF failing = {} /\ cs[name].exists
    THEN [cs EXCEPT ![name].entries =
             [u \in DOMAIN @ \cup urls |->
                 IF u \in urls THEN NetResp(200, InstallBody(u)) ELSE @[u]]]
    ELSE cs

(* install listener, main.js:893-903: addAll, then skipWaiting; the .catch  *)
(* logs a rejection, so the promise given to waitUntil fulfils either way   *)
(* and the worker becomes installed.  `failing` is the set of manifest      *)
(* entries whose fetch fails.                                               *)
InstallAddAll(failing) ==
    /\ phase = "installing"
    /\ caches' = AddAll(caches, STATIC_CACHE, STATIC_ASSETS, failing)
    /\ installFailed' = (failing # {})
    /\ skipWaitingCalled' = (skipWaitingCalled \/ failing = {})
    /\ phase' = "installed"
    /\ UNCHANGED <<oldInUse, doomed, skipMessage, fetchVars, msgVars, pageVars>>

(* message listener, main.js:1207-1209 *)
SkipWaitingMessage ==
    /\ phase \in {"installing", "installed"}
    /\ ~skipMessage
    /\ skipMessage' = TRUE
    /\ skipWaitingCalled' = TRUE
    /\ UNCHANGED <<phase, oldInUse, installFailed, doomed, caches,
                   fetchVars, msgVars, pageVars>>

(* the last page controlled by the old version goes away *)
OldVersionReleased ==
    /\ oldInUse
    /\ oldInUse' = FALSE
    /\ UNCHANGED <<phase, skipWaitingCalled, installFailed, doomed, skipMessage, caches,
                   fetchVars, msgVars, pageVars>>

(* the keep test written with CACHE_NAME in the place of IMAGE_CACHE *)
IsCurrentCacheOrCacheName(cacheName) ==
    ~(cacheName # STATIC_CACHE /\ cacheName # DYNAMIC_CACHE /\ cacheName # CACHE_NAME)

(* the keep test naming the static partition only *)
IsCurrentCacheStaticOnly(cacheName) == ~(cacheName # STATIC_CACHE)

(* activate listener, main.js:915-917: the names it keeps *)
IsCurrentCache(cacheName) ==
    ~(cacheName # STATIC_CACHE /\ cacheName # DYNAMIC_CACHE /\ cacheName # IMAGE_CACHE)

(* activate listener, main.js:910-922: an installed worker activates when   *)
(* no old version is in use or skipWaiting was called; caches.keys() and    *)
(* one caches.delete per name that is not a current partition               *)
ActivateStart ==
    /\ phase = "installed"
    /\ skipWaitingCalled \/ ~oldInUse
    /\ phase' = "activating"
    /\ oldInUse' = FALSE
    /\ doomed' = {n \in CacheNames : caches[n].exists /\ ~IsCurrentCache(n)}
    /\ UNCHANGED <<skipWaitingCalled, installFailed, skipMessage, caches, fetchVars, msgVars,
                   pageVars>>

(* one of the deletions of Promise.all, main.js:919 *)
ActivateDelete(cacheName) ==
    /\ phase = "activating"
    /\ cacheName \in doomed
    /\ caches' = Deleted(caches, cacheName)
    /\ doomed' = doomed \ {cacheName}
    /\ UNCHANGED <<phase, skipWaitingCalled, oldInUse, installFailed, skipMessage,
                   fetchVars, msgVars, pageVars>>

(* the activate listener claiming the clients without waiting for the      *)
(* deletions                                                                *)
ActivateClaimEarly ==
    /\ phase = "activating"
    /\ phase' = "activated"
    /\ UNCHANGED <<skipWaitingCalled, oldInUse, installFailed, doomed, skipMessage,
                   caches, fetchVars, msgVars, pageVars>>

(* activate listener, main.js:924-927: after every deletion, clients.claim *)
ActivateClaim ==
    /\ phase = "activating"
    /\ doomed = {}
    /\ phase' = "activated"
    /\ UNCHANGED <<skipWaitingCalled, oldInUse, installFailed, doomed, skipMessage,
                   caches, fetchVars, msgVars, pageVars>>

----------------------------------------------------------------------------
(* The retry queue and the page *)

Buttons == 1..NumButtons

(* a doBackgroundSync pass: its position, the number of passes started,     *)
(* what `requests` holds, and the length of the queue when the pass began   *)
(* and when it ended                                                        *)
IdleSync ==
    [pc |-> "idle", passes |-> 0, requests |-> Undefined, start |-> 0, ended |-> 0]
IdleButton == [pc |-> "idle", loading |-> FALSE, posts |-> 0, clicks |-> 0,
               last |-> "none"]

(* a record of the 'failed-requests' store, main.js:1131 and 1136 *)
Entry(id, url) == [id |-> id, url |-> url, options |-> [method |-> "POST"]]

QueuedUrls == {UrlCartAdd, UrlSearch}

(* the contents the store can have: records in ascending key order *)
RECURSIVE QueuesOver(_)
QueuesOver(n) ==
    IF n = 0 THEN { << >> }
    ELSE LET shorter == QueuesOver(n - 1) IN
         shorter \cup {Append(q, Entry(n, u)) : q \in shorter, u \in QueuedUrls}

(* IDBObjectStore.getAll(), main.js:1127: an IDBRequest, whose result is    *)
(* set when its success event fires; it is not a promise and not iterable   *)
StoreGetAll(q) == [kind |-> "IDBRequest", status |-> 0, body |-> 0]

(* `await v`: v itself unless v is a promise *)
Awaited(v) == IF v.kind = "promise" THEN v.value ELSE v

(* whether for...of can iterate v *)
Iterable(v) == v.kind = "array"

(* sync listener, main.js:1113-1117, and doBackgroundSync up to its first   *)
(* await, openDB(), main.js:1119-1124                                       *)
SyncEvent(tag) ==
    /\ sync.pc \in {"idle", "done"}
    /\ sync.passes < MaxSyncs
    /\ sync' = IF tag = "background-sync"
               THEN [pc |-> "openDB", passes |-> sync.passes + 1, requests |-> Undefined,
                     start |-> Len(queue), ended |-> 0]
               ELSE sync
    /\ UNCHANGED <<lifeVars, caches, fetchVars, msgVars, queue, cart, search>>

(* openDB, main.js:1252-1268, settles; then main.js:1125-1127: the          *)
(* transaction, the store and `await store.getAll()`.  A rejected openDB is *)
(* caught by the outer catch, main.js:1143-1145.                            *)
SyncOpenDB(opened) ==
    /\ sync.pc = "openDB"
    /\ sync' = IF opened
               THEN [sync EXCEPT !.pc = "getAll", !.requests = Awaited(StoreGetAll(queue))]
               ELSE [sync EXCEPT !.pc = "done", !.ended = Len(queue)]
    /\ UNCHANGED <<lifeVars, caches, fetchVars, msgVars, queue, cart, search>>

(* a pass that removes every record of the store when it ends *)
SyncIterateClearsStore ==
    /\ sync.pc = "getAll"
    /\ sync' = IF Iterable(sync.requests)
               THEN [sync EXCEPT !.pc = "replay"]
               ELSE [sync EXCEPT !.pc = "done", !.ended = Len(queue)]
    /\ queue' = << >>
    /\ UNCHANGED <<lifeVars, caches, fetchVars, msgVars, cart, search>>

(* main.js:1129: `for (const requestData of requests)`.  requests is the    *)
(* IDBRequest, which is not iterable: the statement throws a TypeError,     *)
(* the loop body (main.js:1130-1141) does not run, and the outer catch,     *)
(* main.js:1143-1145, ends the pass.                                        *)
SyncIterate ==
    /\ sync.pc = "getAll"
    /\ sync' = IF Iterable(sync.requests)
               THEN [sync EXCEPT !.pc = "replay"]
               ELSE [sync EXCEPT !.pc = "done", !.ended = Len(queue)]
    /\ UNCHANGED <<lifeVars, caches, fetchVars, msgVars, queue, cart, search>>

(* enqueue(entry): a record is added to the 'failed-requests' store under   *)
(* the next key of its key generator (keyPath 'id', autoIncrement,          *)
(* main.js:1262).  No function of main.js adds records; this is the append  *)
(* that the queue's contract gives to the code outside the worker.          *)
Enqueue(url) ==
    /\ Len(queue) < MaxQueue
    /\ queue' = Append(queue, Entry(Len(queue) + 1, url))
    /\ UNCHANGED <<lifeVars, caches, fetchVars, msgVars, sync, cart, search>>

(* what the page's fetch('/api/cart/add') and response.json() can give:     *)
(* a success payload, an error payload, the worker's 503 JSON, a body that  *)
(* is not JSON, or a rejected fetch                                         *)
CartOutcomes == {"success", "error", "offline503", "notJson", "rejected"}

(* addToCart without the test of the loading mark *)
AddToCartUnguarded(b) ==
    /\ cart[b].clicks < MaxClicks
    /\ cart' = [cart EXCEPT ![b] =
                   [@ EXCEPT !.clicks = @ + 1, !.loading = TRUE,
                             !.pc = "fetching", !.posts = @ + 1,
                             !.last = "none"]]
    /\ UNCHANGED <<lifeVars, caches, fetchVars, msgVars, queue, sync, search>>

(* setupCartFunctionality, main.js:235-241, and addToCart, main.js:248-269: *)
(* a click on the button; an activation while loading returns at once       *)
AddToCart(b) ==
    /\ cart[b].clicks < MaxClicks
    /\ cart' = [cart EXCEPT ![b] =
                   IF cart[b].loading
                   THEN [@ EXCEPT !.clicks = @ + 1]
                   ELSE [@ EXCEPT !.clicks = @ + 1, !.loading = TRUE,
                                  !.pc = "fetching", !.posts = @ + 1,
                                  !.last = "none"]]
    /\ UNCHANGED <<lifeVars, caches, fetchVars, msgVars, queue, sync, search>>

(* addToCart, main.js:259-271 and 299-304: the fetch settles; a rejection   *)
(* goes to the catch, which logs and notifies, then the finally             *)
AddToCartFetched(b, outcome) ==
    /\ cart[b].pc = "fetching"
    /\ cart' = [cart EXCEPT ![b] =
                   IF outcome = "rejected"
                   THEN [@ EXCEPT !.pc = "idle", !.loading = FALSE, !.last = "rejected"]
                   ELSE [@ EXCEPT !.pc = "parsing", !.last = outcome]]
    /\ UNCHANGED <<lifeVars, caches, fetchVars, msgVars, queue, sync, search>>

(* addToCart, main.js:271-304: response.json() settles, the notification is *)
(* shown, and the finally removes the loading mark                          *)
AddToCartParsed(b) ==
    /\ cart[b].pc = "parsing"
    /\ cart' = [cart EXCEPT ![b] = [@ EXCEPT !.pc = "idle", !.loading = FALSE]]
    /\ UNCHANGED <<lifeVars, caches, fetchVars, msgVars, queue, sync, search>>

----------------------------------------------------------------------------
(* The page's search input *)

(* the trimmed values of two characters or more; 0 stands for a shorter one *)
Queries == 1..NumQueries

(* a search input: the trimmed value, the query the pending timeout will    *)
(* search for (0: no timeout), the input events so far, the number of       *)
(* searches issued, the searches whose fetch is outstanding, and the        *)
(* results container: whether it is displayed and which search filled it    *)
NoSearch == [query |-> 0, seq |-> 0]
IdleSearch ==
    [current |-> 0, timer |-> 0, inputs |-> 0, issued |-> 0, inflight |-> {},
     visible |-> FALSE, shown |-> NoSearch]

(* input listener, main.js:343-354: the pending timeout is cleared; a value *)
(* of two characters or more sets a new timeout, a shorter one hides the    *)
(* results container                                                        *)
SearchInput(q) ==
    /\ search.inputs < MaxInputs
    /\ search' = IF q >= 1
                 THEN [search EXCEPT !.inputs = @ + 1, !.current = q, !.timer = q]
                 ELSE [search EXCEPT !.inputs = @ + 1, !.current = 0, !.timer = 0,
                                     !.visible = FALSE]
    /\ UNCHANGED <<lifeVars, caches, fetchVars, msgVars, queue, sync, cart>>

(* the timeout of main.js:349-351 fires: performSearch, main.js:366-368,    *)
(* up to its `await fetch`                                                  *)
SearchTimeout ==
    /\ search.timer # 0
    /\ search' = [search EXCEPT
                     !.timer = 0,
                     !.issued = @ + 1,
                     !.inflight = @ \cup {[query |-> search.timer,
                                           seq |-> search.issued + 1]}]
    /\ UNCHANGED <<lifeVars, caches, fetchVars, msgVars, queue, sync, cart>>

(* performSearch, main.js:367-376, and showSearchResults, main.js:380-403:  *)
(* the fetch and response.json() of a search settle.  With data.success     *)
(* the container is filled with the results and displayed; a rejection, a   *)
(* body that is not JSON or a payload without success changes nothing.      *)
(* Nothing between the two awaits touches the page.                         *)
SearchSettled(r, success) ==
    /\ r \in search.inflight
    /\ search' = IF success
                 THEN [search EXCEPT !.inflight = @ \ {r}, !.visible = TRUE,
                                     !.shown = r]
                 ELSE [search EXCEPT !.inflight = @ \ {r}]
    /\ UNCHANGED <<lifeVars, caches, fetchVars, msgVars, queue, sync, cart>>

----------------------------------------------------------------------------
(* The worker serving requests.  Cache Storage outlives the worker: at      *)
(* start the static partition holds the manifest (install succeeded) or is  *)
(* empty (cache.addAll rejected), and the dynamic partition may hold        *)
(* entries of earlier sessions.                                             *)

ManifestEntries == [u \in STATIC_ASSETS |-> NetResp(200, InstallBody(u))]
SeedEntries == [u \in {UrlProduct, UrlCartCount} |-> NetResp(200, 0)]

Absent == [exists |-> FALSE, gen |-> 0, entries |-> NoEntries]
Holding(entries) == [exists |-> TRUE, gen |-> 0, entries |-> entries]

Init ==
    /\ phase = "activated"
    /\ installFailed \in BOOLEAN
    /\ skipWaitingCalled = ~installFailed
    /\ oldInUse = FALSE
    /\ doomed = {}
    /\ \E dyn \in {Absent, Holding(SeedEntries)} :
          caches = [n \in CacheNames |->
                       IF n = STATIC_CACHE
                       THEN Holding(IF installFailed THEN NoEntries ELSE ManifestEntries)
                       ELSE IF n = DYNAMIC_CACHE THEN dyn
                       ELSE Absent]
    /\ events = [e \in 1..MaxEvents |-> NoEvent]
    /\ inv = [i \in InvIds |-> IdleInv]
    /\ pendingPuts = {}
    /\ clears = 0
    /\ batch = [r \in 1..MaxBatches |-> IdleBatch]
    /\ skipMessage = FALSE
    /\ queue = << >>
    /\ sync = IdleSync
    /\ cart = [b \in Buttons |-> IdleButton]
    /\ search = IdleSearch

(* A new version of the worker, from script evaluation on.  Cache Storage   *)
(* holds what earlier versions and sessions left.                           *)
InitLifecycle ==
    /\ phase = "parsed"
    /\ skipWaitingCalled = FALSE
    /\ oldInUse \in BOOLEAN
    /\ installFailed = FALSE
    /\ doomed = {}
    /\ \E present \in SUBSET CacheNames :
          caches = [n \in CacheNames |->
                       IF n \notin present THEN Absent
                       ELSE IF n = DYNAMIC_CACHE THEN Holding(SeedEntries)
                       ELSE Holding(NoEntries)]
    /\ events = [e \in 1..MaxEvents |-> NoEvent]
    /\ inv = [i \in InvIds |-> IdleInv]
    /\ pendingPuts = {}
    /\ clears = 0
    /\ batch = [r \in 1..MaxBatches |-> IdleBatch]
    /\ skipMessage = FALSE
    /\ queue = << >>
    /\ sync = IdleSync
    /\ cart = [b \in Buttons |-> IdleButton]
    /\ search = IdleSearch

NextLifecycle ==
    \/ InstallOpen
    \/ \E failing \in SUBSET STATIC_ASSETS : InstallAddAll(failing)
    \/ SkipWaitingMessage
    \/ OldVersionReleased
    \/ ActivateStart
    \/ \E n \in CacheNames : ActivateDelete(n)
    \/ ActivateClaim
    \/ \E n \in CacheNames : ClearCache(n)

SpecLifecycle == InitLifecycle /\ [][NextLifecycle]_vars

(* The page and the background sync.  The 'failed-requests' store is        *)
(* durable: it holds what earlier sessions left in it.                      *)
InitQueue ==
    /\ phase = "activated"
    /\ skipWaitingCalled = TRUE
    /\ oldInUse = FALSE
    /\ installFailed = FALSE
    /\ doomed = {}
    /\ caches = [n \in CacheNames |->
                    IF n = STATIC_CACHE THEN Holding(ManifestEntries) ELSE Absent]
    /\ events = [e \in 1..MaxEvents |-> NoEvent]
    /\ inv = [i \in InvIds |-> IdleInv]
    /\ pendingPuts = {}
    /\ clears = 0
    /\ batch = [r \in 1..MaxBatches |-> IdleBatch]
    /\ skipMessage = FALSE
    /\ queue \in QueuesOver(MaxQueue)
    /\ sync = IdleSync
    /\ cart = [b \in Buttons |-> IdleButton]
    /\ search = IdleSearch

NextQueue ==
    \/ \E tag \in {"background-sync", "periodic-sync"} : SyncEvent(tag)
    \/ \E opened \in BOOLEAN : SyncOpenDB(opened)
    \/ SyncIterate
    \/ \E b \in Buttons : AddToCart(b)
    \/ \E b \in Buttons, outcome \in CartOutcomes : AddToCartFetched(b, outcome)
    \/ \E b \in Buttons : AddToCartParsed(b)

SpecQueue == InitQueue /\ [][NextQueue]_vars

Next ==
    \/ \E e \in 1..MaxEvents, req \in Requests : FetchEvent(e, req)
    \/ \E i \in InvIds : CacheFirstLookup(i)
    \/ \E i \in InvIds, r \in NetOutcomes : CacheFirstNetwork(i, r)
    \/ \E i \in InvIds, r \in NetOutcomes : NetworkFirstNetwork(i, r)
    \/ \E i \in InvIds : NetworkFirstPut(i)
    \/ \E i \in InvIds : NetworkFirstFallback(i)
    \/ \E i \in InvIds : SwrLookup(i)
    \/ \E i \in InvIds, r \in NetOutcomes : SwrNetwork(i, r)
    \/ \E i \in InvIds : HandleOffline(i)
    \/ \E p \in pendingPuts : PutCommit(p)
    \/ \E n \in KnownPartitions : ClearCache(n)

Spec == Init /\ [][Next]_vars

(* One request, for any path of the model, served by the worker *)
AllRequests ==
    {Request(u, "GET", "https:", md) : u \in Urls, md \in {"navigate", "cors"}}
    \cup {Request(UrlCartAdd, "POST", "https:", "cors"),
          Request(UrlCss, "GET", "chrome-extension:", "no-cors")}

NextSingle ==
    \/ \E req \in AllRequests : FetchEvent(1, req)
    \/ \E i \in InvIds : CacheFirstLookup(i)
    \/ \E i \in InvIds, r \in NetOutcomes : CacheFirstNetwork(i, r)
    \/ \E i \in InvIds, r \in NetOutcomes : NetworkFirstNetwork(i, r)
    \/ \E i \in InvIds : NetworkFirstPut(i)
    \/ \E i \in InvIds : NetworkFirstFallback(i)
    \/ \E i \in InvIds : SwrLookup(i)
    \/ \E i \in InvIds, r \in NetOutcomes : SwrNetwork(i, r)
    \/ \E i \in InvIds : HandleOffline(i)
    \/ \E p \in pendingPuts : PutCommit(p)
    \/ \E n \in CacheNames : ClearCache(n)

SpecSingle == Init /\ [][NextSingle]_vars

(* One request served while operations of the cache store may reject *)
NextFaulty ==
    \/ NextSingle
    \/ \E i \in InvIds : CacheFirstStoreFails(i)
    \/ \E i \in InvIds : SwrStoreFails(i)
    \/ \E i \in InvIds : NetworkFirstOpenFails(i)
    \/ \E i \in InvIds : NetworkFirstFallbackFails(i)
    \/ \E i \in InvIds : HandleOfflineFails(i)
    \/ \E p \in pendingPuts : PutFails(p)

SpecFaulty == Init /\ [][NextFaulty]_vars

(* The control channel: CACHE_URLS and CLEAR_CACHE messages handled by the  *)
(* active worker.  The retry queue holds what earlier sessions left in it.  *)
InitMessages ==
    /\ phase = "activated"
    /\ installFailed = FALSE
    /\ skipWaitingCalled = TRUE
    /\ oldInUse = FALSE
    /\ doomed = {}
    /\ \E dyn \in {Absent, Holding(SeedEntries)} :
          caches = [n \in CacheNames |->
                       IF n = STATIC_CACHE THEN Holding(ManifestEntries)
                       ELSE IF n = DYNAMIC_CACHE THEN dyn
                       ELSE Absent]
    /\ events = [e \in 1..MaxEvents |-> NoEvent]
    /\ inv = [i \in InvIds |-> IdleInv]
    /\ pendingPuts = {}
    /\ clears = 0
    /\ batch = [r \in 1..MaxBatches |-> IdleBatch]
    /\ skipMessage = FALSE
    /\ queue \in QueuesOver(1)
    /\ sync = IdleSync
    /\ cart = [b \in Buttons |-> IdleButton]
    /\ search = IdleSearch

NextMessages ==
    \/ \E r \in Batches, urls \in UrlLists : CacheUrlsMessage(r, urls)
    \/ \E r \in Batches : CacheUrlsOpen(r)
    \/ \E r \in Batches, response \in NetOutcomes : CacheUrlsFetched(r, response)
    \/ \E r \in Batches : CacheUrlsPut(r)
    \/ \E n \in CacheNames : ClearCache(n)

SpecMessages == InitMessages /\ [][NextMessages]_vars

(* A new version from script evaluation on, and the first request it is    *)
(* given once it is active: a product page (stale-while-revalidate) or the  *)
(* cart count (network-first).  Fetch events reach a worker only when it is *)
(* activated.                                                               *)
ActivationRequests ==
    {Request(u, "GET", "https:", "cors") : u \in {UrlProduct, UrlCartCount}}

NextActivation ==
    \/ NextLifecycle
    \/ \E req \in ActivationRequests : FetchEvent(1, req)
    \/ \E i \in InvIds, r \in NetOutcomes : NetworkFirstNetwork(i, r)
    \/ \E i \in InvIds : NetworkFirstPut(i)
    \/ \E i \in InvIds : NetworkFirstFallback(i)
    \/ \E i \in InvIds : SwrLookup(i)
    \/ \E i \in InvIds, r \in NetOutcomes : SwrNetwork(i, r)
    \/ \E i \in InvIds : HandleOffline(i)
    \/ \E p \in pendingPuts : PutCommit(p)

SpecActivation == InitLifecycle /\ [][NextActivation]_vars

(* The worker with everything that reaches it while the retry queue holds  *)
(* entries: sync events, the fetch event of the page's POST /api/cart/add,  *)
(* a CACHE_URLS and a CLEAR_CACHE message, and enqueues from outside the    *)
(* worker                                                                   *)
QueueRequests == {Request(UrlCartAdd, "POST", "https:", "cors")}

NextWorker ==
    \/ \E tag \in {"background-sync", "periodic-sync"} : SyncEvent(tag)
    \/ \E opened \in BOOLEAN : SyncOpenDB(opened)
    \/ SyncIterate
    \/ \E url \in QueuedUrls : Enqueue(url)
    \/ \E req \in QueueRequests : FetchEvent(1, req)
    \/ \E i \in InvIds, r \in NetOutcomes : NetworkFirstNetwork(i, r)
    \/ \E i \in InvIds : NetworkFirstPut(i)
    \/ \E i \in InvIds : NetworkFirstFallback(i)
    \/ \E i \in InvIds : HandleOffline(i)
    \/ \E url \in BatchUrls : CacheUrlsMessage(1, <<url>>)
    \/ CacheUrlsOpen(1)
    \/ \E response \in NetOutcomes : CacheUrlsFetched(1, response)
    \/ CacheUrlsPut(1)
    \/ \E n \in CacheNames : ClearCache(n)

SpecWorker == InitMessages /\ [][NextWorker]_vars

(* One request and the sync events, with every network call and every      *)
(* store operation settling in the end: a step of a handleRequest           *)
(* invocation, of a drain pass or of a cache.put that can be taken is       *)
(* taken.  Nothing is assumed of the events that come from outside.         *)
InvStep(i) ==
    \/ CacheFirstLookup(i)
    \/ \E r \in NetOutcomes : CacheFirstNetwork(i, r)
    \/ \E r \in NetOutcomes : NetworkFirstNetwork(i, r)
    \/ NetworkFirstPut(i)
    \/ NetworkFirstFallback(i)
    \/ SwrLookup(i)
    \/ \E r \in NetOutcomes : SwrNetwork(i, r)
    \/ HandleOffline(i)

DrainStepTaken == (\E opened \in BOOLEAN : SyncOpenDB(opened)) \/ SyncIterate

EverythingSettles ==
    /\ \A i \in InvIds : WF_vars(InvStep(i))
    /\ WF_vars(DrainStepTaken)
    /\ WF_vars(\E p \in pendingPuts : PutCommit(p))

(* a stylesheet of the manifest (cache-first hit), a photo (cache-first     *)
(* miss), the cart count (network-first) and a product page                 *)
(* (stale-while-revalidate)                                                 *)
TerminationRequests ==
    {Request(u, "GET", "https:", "cors") : u \in {UrlCss, UrlPhoto, UrlCartCount, UrlProduct}}

NextTermination ==
    \/ \E req \in TerminationRequests : FetchEvent(1, req)
    \/ \E i \in InvIds : CacheFirstLookup(i)
    \/ \E i \in InvIds, r \in NetOutcomes : CacheFirstNetwork(i, r)
    \/ \E i \in InvIds, r \in NetOutcomes : NetworkFirstNetwork(i, r)
    \/ \E i \in InvIds : NetworkFirstPut(i)
    \/ \E i \in InvIds : NetworkFirstFallback(i)
    \/ \E i \in InvIds : SwrLookup(i)
    \/ \E i \in InvIds, r \in NetOutcomes : SwrNetwork(i, r)
    \/ \E i \in InvIds : HandleOffline(i)
    \/ \E p \in pendingPuts : PutCommit(p)
    \/ \E tag \in {"background-sync", "periodic-sync"} : SyncEvent(tag)
    \/ \E opened \in BOOLEAN : SyncOpenDB(opened)
    \/ SyncIterate

SpecTermination == InitMessages /\ [][NextTermination]_vars /\ EverythingSettles

(* The page's add-to-cart buttons: clicks and the settling of their POSTs *)
NextCart ==
    \/ \E b \in Buttons : AddToCart(b)
    \/ \E b \in Buttons, outcome \in CartOutcomes : AddToCartFetched(b, outcome)
    \/ \E b \in Buttons : AddToCartParsed(b)

SpecCart == InitMessages /\ [][NextCart]_vars

(* The page's search input: input events, timeouts and search responses *)
NextSearch ==
    \/ \E q \in 0..NumQueries : SearchInput(q)
    \/ SearchTimeout
    \/ \E r \in search.inflight, success \in BOOLEAN : SearchSettled(r, success)

SpecSearch == InitQueue /\ [][NextSearch]_vars

----------------------------------------------------------------------------
(* Properties of the request-interception path (specification Spec) *)

Intercepted(i) == inv[i].pc # "idle"
GetHttp(req) == req.method = "GET" /\ IsHttp(req)
(* the strategy found no entry and its network call failed *)
MissAndNetworkFailed(i) ==
    inv[i].settled /\ inv[i].net = NetFail /\ inv[i].cached = Undefined

(* C1: for every intercepted GET http(s) request handleRequest settles with *)
(* a response: it never resolves to an empty (undefined) result.            *)
C1_HandleRequestYieldsResponse ==
    \A i \in InvIds :
        (inv[i].settled /\ GetHttp(inv[i].req)) => inv[i].result # Undefined

(* C2: once a first request classified static-asset or image has returned a *)
(* 2xx network response, a later identical request issues no network fetch  *)
(* (no partition is cleared in between).                                    *)
C2_SecondRequestWithoutNetwork ==
    \A l \in Listeners :
        (/\ events[2].dispatched
         /\ GetHttp(events[2].req)
         /\ StrategyOf(events[2].req) = "cacheFirst"
         /\ Ok(inv[<<1, 1>>].net)
         /\ inv[<<1, 1>>].result = inv[<<1, 1>>].net
         /\ clears = 0)
        => ~inv[<<2, l>>].fetched

(* C3: a request whose method is not GET, or whose scheme is not http(s),   *)
(* is never passed to handleRequest by a fetch listener.                    *)
C3_OnlyGetHttpHandled ==
    \A i \in InvIds : Intercepted(i) => GetHttp(inv[i].req)

(* C4: for every navigation-mode GET request, when the request is not in    *)
(* its partition and the network call fails, the response delivered is the  *)
(* cached /offline.html entry of the static partition (here: in the states  *)
(* where the static partition holds that entry).                            *)
C4_NavigationGetsOfflinePage ==
    \A e \in 1..MaxEvents :
        LET i == <<e, events[e].responder>> IN
        (/\ events[e].dispatched
         /\ GetHttp(events[e].req)
         /\ events[e].req.mode = "navigate"
         /\ MissAndNetworkFailed(i)
         /\ clears = 0 /\ ~installFailed)
        => inv[i].result = ManifestEntries[UrlOffline]

(* the api-call requests that the Cache API can store *)
ApiGet(req) == GetHttp(req) /\ ClassOf[req.url] = "api-call"

ApiServesNetworkResponse(i) ==
    (inv[i].settled /\ inv[i].net.kind = "net") => inv[i].result = inv[i].net

(* the step in which the write p of an api-call request completes *)
ApiWriteCompletes(p) ==
    p \in pendingPuts /\ p \notin pendingPuts' /\ ApiGet(p.req)

PageGet(req) == GetHttp(req) /\ ClassOf[req.url] = "page"

(* the 2xx responses the network gave to the behaviour's page requests; the *)
(* entries of earlier sessions have body 0, the network's have another      *)
RefreshedContents ==
    {inv[j].net : j \in {k \in InvIds : PageGet(inv[k].req) /\ Ok(inv[k].net)}}

(* a page request that found an entry gets it, and its refresh is issued *)
StaleServedAndRefreshIssued(i) ==
    inv[i].cached # Undefined =>
        inv[i].settled /\ inv[i].result = inv[i].cached /\ inv[i].fetched

(* event e follows an event that was served a cached entry and whose        *)
(* refresh has been stored                                                  *)
AfterStoredRefresh(e) ==
    /\ e > 1
    /\ events[e].dispatched
    /\ events[e].afterWrite
    /\ inv[<<e - 1, events[e - 1].responder>>].cached # Undefined
    /\ inv[<<e, events[e].responder>>].settled

(* C6 as stated: a page request with an entry in the dynamic partition gets *)
(* the entry and a background refresh is issued; once the refresh has       *)
(* completed with a 2xx response (its copy is stored), any subsequent       *)
(* identical request returns refreshed content.                             *)
C6_StaleThenRefreshed ==
    \A e \in 1..MaxEvents :
        LET i == <<e, events[e].responder>> IN
        (events[e].dispatched /\ PageGet(events[e].req)) =>
            /\ StaleServedAndRefreshIssued(i)
            /\ AfterStoredRefresh(e) => inv[i].result \in RefreshedContents

(* C6, amended: as C6, for a subsequent request made while the dynamic      *)
(* partition has not been deleted (no CLEAR_CACHE of it) since the refresh  *)
(* was stored.                                                              *)
C6_StaleThenRefreshedUnlessCleared ==
    \A e \in 1..MaxEvents :
        LET i == <<e, events[e].responder>> IN
        (events[e].dispatched /\ PageGet(events[e].req)) =>
            /\ StaleServedAndRefreshIssued(i)
            /\ (AfterStoredRefresh(e) /\ caches[DYNAMIC_CACHE].gen = 0)
                  => /\ inv[i].result \in RefreshedContents
                     /\ inv[i].result = inv[i].cached

(* the second request is served, from the partition, the content a refresh  *)
(* of the first one stored                                                  *)
C6_Witness ==
    /\ PageGet(events[2].req)
    /\ AfterStoredRefresh(2)
    /\ caches[DYNAMIC_CACHE].gen = 0
    /\ inv[<<1, 1>>].result = SeedEntries[UrlProduct]
    /\ inv[<<2, 1>>].result = inv[<<1, 1>>].net
    /\ inv[<<2, 1>>].result # inv[<<1, 1>>].result

(* cache-first answered invocation i with a 2xx response of the network *)
CacheFirstAnsweredFromNetwork(i) ==
    /\ inv[i].settled
    /\ GetHttp(inv[i].req)
    /\ StrategyOf(inv[i].req) = "cacheFirst"
    /\ Ok(inv[i].net)
    /\ inv[i].result = inv[i].net

(* C20: in cache-first, on a miss followed by a 2xx network response, the   *)
(* copy is in the target partition by the time the response is returned:    *)
(* in no state (no partition being cleared) has the request been answered   *)
(* while the partition lacks the entry.                                     *)
C20_CopyStoredBeforeReturn ==
    \A i \in InvIds :
        (CacheFirstAnsweredFromNetwork(i) /\ clears = 0) =>
            Match(caches, TargetCache(inv[i].req), inv[i].req) # Undefined

----------------------------------------------------------------------------
(* Properties of the lifecycle (specification SpecLifecycle) *)

Existing == {n \in CacheNames : caches[n].exists}

(* C7: install is all-or-nothing: when the fetch of a manifest entry fails, *)
(* the install ends in failure and the new version never becomes installed  *)
(* nor reaches activate.                                                    *)
C7_FailedInstallStops ==
    installFailed => phase \notin {"installed", "activating", "activated"}

(* C8 as stated: after an activate pass (and before any CLEAR_CACHE) the    *)
(* set of existing partitions is exactly the Known Partition Set.           *)
C8_ExactlyKnownPartitions ==
    (phase = "activated" /\ clears = 0) => Existing = KnownPartitions

(* C8, amended: after an activate pass no partition outside the Known       *)
(* Partition Set exists, and (before any CLEAR_CACHE) the static partition, *)
(* which install opened, exists; the dynamic and image partitions exist     *)
(* only when they existed before the pass.                                  *)
C8_OnlyKnownPartitions ==
    phase = "activated" =>
        /\ Existing \subseteq KnownPartitions
        /\ clears = 0 => STATIC_CACHE \in Existing

(* an activate pass that deleted the partition of an older version and left *)
(* the static partition alone                                               *)
C8_Witness ==
    /\ phase = "activated"
    /\ clears = 0
    /\ caches[CACHE_NAME].gen = 1
    /\ Existing = {STATIC_CACHE}

(* the step in which the installed version starts to activate *)
ActivationStarts == phase = "installed" /\ phase' = "activating"

(* C19: a version whose install succeeded leaves the waiting phase while an *)
(* old version is still in use only when the page sent the SKIP_WAITING     *)
(* message.                                                                 *)
C19_WaitsUnlessAsked ==
    [][(ActivationStarts /\ ~installFailed /\ oldInUse) => skipMessage]_vars

----------------------------------------------------------------------------
(* Properties of activation and the first requests (specification           *)
(* SpecActivation)                                                          *)

(* the step in which the activate pass ends and the version takes control *)
TakesControl == phase # "activated" /\ phase' = "activated"

(* C24: taking control of the pages and serving requests happen only after  *)
(* every deletion of a partition outside the Known Partition Set has        *)
(* completed: at the step that ends the activate pass, and in every state   *)
(* in which the new version has been given a request, no such deletion is   *)
(* pending and no such partition exists.                                    *)
C24_ServesAfterDeletions ==
    /\ [][TakesControl => (doomed = {} /\ Existing \subseteq KnownPartitions)]_vars
    /\ [](\A i \in InvIds :
            Intercepted(i) => (doomed = {} /\ Existing \subseteq KnownPartitions))

(* the partition of an older version was deleted by the activate pass and   *)
(* the new version then answered a request for a product page               *)
C24_Witness ==
    /\ phase = "activated"
    /\ caches[CACHE_NAME].gen = 1
    /\ inv[<<1, 1>>].req.url = UrlProduct
    /\ inv[<<1, 1>>].settled

(* a step of the activate pass: from the start of activation to its end,    *)
(* no CLEAR_CACHE being handled in the step                                 *)
ActivateStep ==
    /\ phase \in {"installed", "activating"}
    /\ phase' \in {"activating", "activated"}
    /\ clears' = clears

(* C30: an activate pass never deletes the static, dynamic or image         *)
(* partition of the current version and never changes their entries: every  *)
(* step of the pass leaves the three partitions as they are, so an entry    *)
(* present before activation is served from its partition afterwards.       *)
C30_ActivateKeepsKnownPartitions ==
    [][ActivateStep => \A n \in KnownPartitions : caches'[n] = caches[n]]_vars

(* after an activate pass that deleted the partition of an older version,   *)
(* the cart count stored by an earlier session is served from the dynamic   *)
(* partition to a request made while the network is down                    *)
C30_Witness ==
    /\ phase = "activated"
    /\ clears = 0
    /\ caches[CACHE_NAME].gen = 1
    /\ inv[<<1, 1>>].req.url = UrlCartCount
    /\ inv[<<1, 1>>].net = NetFail
    /\ inv[<<1, 1>>].result = SeedEntries[UrlCartCount]
    /\ caches[DYNAMIC_CACHE].entries = SeedEntries

----------------------------------------------------------------------------
(* Properties of the retry queue (specification SpecQueue) *)

(* C9: a drain pass (doBackgroundSync on a 'background-sync' event) that    *)
(* read the store and in which no replay failed ends with an empty queue.   *)
C9_DrainEmptiesQueue ==
    (sync.pc = "done" /\ sync.requests # Undefined) => queue = << >>

(* C10: when the page's POST /api/cart/add fails because the network is     *)
(* unavailable, an entry for it is appended to the retry queue.             *)
C10_FailedCartPostIsQueued ==
    [][\A b \in Buttons :
          (cart[b].pc = "fetching" /\ cart'[b].last = "rejected") =>
              /\ Len(queue') = Len(queue) + 1
              /\ queue'[Len(queue')].url = UrlCartAdd]_vars

----------------------------------------------------------------------------
(* Properties of the retry queue among the worker's other events            *)
(* (specification SpecWorker)                                               *)

(* a step of a drain pass *)
DrainStep == sync' # sync

(* C26: a drain pass that runs while entries are enqueued never removes an  *)
(* entry that was not replayed successfully: no step of a pass removes or   *)
(* changes an entry (no pass replays one), and the entries enqueued during  *)
(* a pass are in the queue when the pass ends.                              *)
C26_DrainKeepsUnreplayedEntries ==
    /\ [][DrainStep => queue' = queue]_vars
    /\ [](sync.pc = "done" =>
            /\ sync.ended >= sync.start
            /\ Len(queue) >= sync.ended
            /\ \A k \in 1..sync.ended : queue[k].id = k)

(* a pass that read the store ended with the entry it began with and the    *)
(* entries enqueued while it ran                                            *)
C26_Witness ==
    /\ sync.pc = "done"
    /\ sync.requests # Undefined
    /\ sync.start = 1
    /\ sync.ended = 3
    /\ Len(queue) = 3

(* the entries of the queue keep their place and their fields in the step *)
EntriesKept ==
    \A k \in 1..Len(queue) : k <= Len(queue') /\ queue'[k] = queue[k]

(* the step is an enqueue: all that the worker holds is left as it is *)
OutsideWorker ==
    /\ sync' = sync /\ events' = events /\ inv' = inv
    /\ clears' = clears /\ batch' = batch /\ caches' = caches

(* C28: each queued entry keeps the field values (url, options, id) it had  *)
(* when enqueued and is never removed without a successful replay (no step  *)
(* removes one); a sync event with another tag, a fetch event and a control *)
(* message never change the queue: the queue changes only by an enqueue     *)
(* from outside the worker.                                                 *)
C28_QueueFrame ==
    /\ [][EntriesKept]_vars
    /\ [][queue' # queue => OutsideWorker]_vars
    /\ [](\A k \in 1..Len(queue) :
            /\ queue[k].id = k
            /\ queue[k].url \in QueuedUrls
            /\ queue[k].options = [method |-> "POST"])

(* two drain passes, the fetch event of a cart POST, a CACHE_URLS and a     *)
(* CLEAR_CACHE message have been handled and the queue still holds the      *)
(* entry it began with                                                      *)
C28_Witness ==
    /\ queue = <<Entry(1, UrlCartAdd)>>
    /\ sync.pc = "done" /\ sync.passes = MaxSyncs
    /\ inv[<<1, 2>>].settled
    /\ batch[1].pc = "done"
    /\ clears = 1

----------------------------------------------------------------------------
(* Properties of the offline fallback and of the classification            *)
(* (specification SpecSingle)                                               *)

(* the step in which handleOffline, run by invocation i, returns *)
HandleOfflineReturns(i) == inv[i].pc = "offline" /\ inv'[i].pc = "done"

IsResponse(v) == v.kind \in {"net", "synth"}

(* C11: handleOffline returns a response in every reachable state, also     *)
(* when the static partition was deleted by CLEAR_CACHE or holds no         *)
(* /offline.html or placeholder entry, and it issues no network fetch.      *)
C11_HandleOfflineAlwaysResponds ==
    [][\A i \in InvIds :
          HandleOfflineReturns(i) =>
              /\ IsResponse(inv'[i].result)
              /\ inv'[i].fetched = inv[i].fetched]_vars

(* the classes in their order of precedence, and the patterns of each *)
ClassOrder == <<"static-asset", "image", "api-call", "page">>

MatchesClass(class, pathname) ==
    CASE class = "static-asset" -> isStaticAsset(pathname)
      [] class = "image" -> isImage(pathname)
      [] class = "api-call" -> isApiCall(pathname)
      [] class = "page" -> isPage(pathname)

FirstClass(pathname) ==
    LET ms == {k \in DOMAIN ClassOrder : MatchesClass(ClassOrder[k], pathname)} IN
    IF ms = {} THEN "unclassified"
    ELSE ClassOrder[CHOOSE k \in ms : \A j \in ms : k <= j]

(* the strategy and the partition of each class *)
ClassStrategy(class) ==
    CASE class = "static-asset" -> [strategy |-> "cacheFirst", cache |-> STATIC_CACHE]
      [] class = "image" -> [strategy |-> "cacheFirst", cache |-> IMAGE_CACHE]
      [] class = "api-call" -> [strategy |-> "networkFirst", cache |-> DYNAMIC_CACHE]
      [] class = "page" -> [strategy |-> "staleWhileRevalidate", cache |-> DYNAMIC_CACHE]
      [] class = "unclassified" -> [strategy |-> "networkFirst", cache |-> DYNAMIC_CACHE]

ExpectedDispatch == [u \in Urls |-> ClassStrategy(FirstClass(Pathname(u)))]

(* the positions inside each strategy *)
StrategyPcs(strategy) ==
    CASE strategy = "cacheFirst" -> {"cf_lookup", "cf_fetch"}
      [] strategy = "networkFirst" -> {"nf_fetch", "nf_put", "nf_fallback"}
      [] strategy = "staleWhileRevalidate" -> {"swr_lookup", "swr_bg", "swr_wait"}

(* C14: handleRequest runs, for each request, the strategy of the first     *)
(* class that matches its path in the order static-asset, image, api-call,  *)
(* page (network-first on the dynamic partition when none matches), on the  *)
(* partition of that class: every invocation is inside that strategy, every *)
(* write goes to that partition, and the image partition is only opened for *)
(* a request of class image.                                                *)
C14_DispatchByFirstClass ==
    /\ \A i \in InvIds :
          Intercepted(i) =>
              inv[i].pc \in StrategyPcs(ExpectedDispatch[inv[i].req.url].strategy)
                            \cup {"offline", "done"}
    /\ \A p \in pendingPuts : p.name = ExpectedDispatch[p.req.url].cache
    /\ caches[IMAGE_CACHE].exists =>
          \E i \in InvIds :
              Intercepted(i) /\ ExpectedDispatch[inv[i].req.url].cache = IMAGE_CACHE

(* a path that matches the patterns of two classes, static-asset and image, *)
(* is fetched by cache-first and written to the static partition            *)
C14_Witness ==
    /\ inv[<<1, 1>>].req.url = UrlBanner
    /\ isImage(Pathname(UrlBanner))
    /\ \E p \in pendingPuts : p.by = <<1, 1>> /\ p.name = STATIC_CACHE
    /\ ~caches[IMAGE_CACHE].exists

(* the paths that match a pattern of the image class *)
ImagePatternUrls == {u \in Urls : MatchesClass("image", Pathname(u))}

(* C15 as stated: after a strategy failure a navigation request gets the    *)
(* static partition's /offline.html entry; otherwise a request whose path   *)
(* classifies as image gets the static partition's placeholder entry;       *)
(* otherwise the synthesized 503.                                           *)
C15_SubstituteByClass ==
    [][\A i \in InvIds :
          HandleOfflineReturns(i) =>
              inv'[i].result =
                  IF inv[i].req.mode = "navigate"
                  THEN MatchUrl(caches', STATIC_CACHE, UrlOffline)
                  ELSE IF FirstClass(Pathname(inv[i].req.url)) = "image"
                  THEN MatchUrl(caches', STATIC_CACHE, UrlPlaceholder)
                  ELSE Synth503]_vars

(* C15, amended: as C15, the second case being a request whose path matches *)
(* a pattern of the image class, whatever class the precedence of           *)
(* handleRequest gave it (an image under /assets/ is a static-asset).       *)
C15_SubstituteByImagePattern ==
    [][\A i \in InvIds :
          HandleOfflineReturns(i) =>
              inv'[i].result =
                  IF inv[i].req.mode = "navigate"
                  THEN MatchUrl(caches', STATIC_CACHE, UrlOffline)
                  ELSE IF inv[i].req.url \in ImagePatternUrls
                  THEN MatchUrl(caches', STATIC_CACHE, UrlPlaceholder)
                  ELSE Synth503]_vars

(* a navigation to an image path whose strategy failed got the offline      *)
(* page, which is not the placeholder                                       *)
C15_Witness ==
    /\ inv[<<1, 1>>].req = Request(UrlPhoto, "GET", "https:", "navigate")
    /\ MissAndNetworkFailed(<<1, 1>>)
    /\ inv[<<1, 1>>].result = ManifestEntries[UrlOffline]
    /\ inv[<<1, 1>>].result # ManifestEntries[UrlPlaceholder]

----------------------------------------------------------------------------
(* Properties of the three strategies (specification SpecSingle) *)

RunsStrategy(i, strategy) == Intercepted(i) /\ StrategyOf(inv[i].req) = strategy

(* C21: stale-while-revalidate with no cached entry and a failing network   *)
(* call fails: the step in which the awaited fetch fails takes the          *)
(* invocation to handleOffline; it does not settle handleRequest.           *)
C21_SwrMissAndFailureGoesOffline ==
    [][\A i \in InvIds :
          (inv[i].pc = "swr_wait" /\ inv'[i].pc # "swr_wait" /\ inv'[i].net = NetFail)
             => (inv'[i].pc = "offline" /\ ~inv'[i].settled)]_vars

(* the step in which invocation i leaves the program point pc *)
Leaves(i, pc) == inv[i].pc = pc /\ inv'[i].pc # pc

C23_StaleEntryWhateverTheNetwork ==
    /\ [](\A i \in InvIds :
            (RunsStrategy(i, "staleWhileRevalidate") /\ inv[i].cached # Undefined) =>
                /\ inv[i].settled
                /\ inv[i].result = inv[i].cached
                /\ inv[i].pc \in {"swr_bg", "done"})
    /\ [][\A i \in InvIds :
            /\ Leaves(i, "swr_lookup") =>
                  LET entry == Match(caches, TargetCache(inv[i].req), inv[i].req) IN
                  entry # Undefined =>
                      inv'[i].settled /\ inv'[i].result = entry /\ inv'[i].net = Undefined
            /\ Leaves(i, "swr_bg") =>
                  /\ inv'[i].result = inv[i].result
                  /\ inv'[i].pc = "done"
                  /\ ~Ok(inv'[i].net) =>
                        caches' = caches /\ pendingPuts' = pendingPuts]_vars

(* the two runs of handleRequest for one request of a product page: the     *)
(* refresh of one failed, the refresh of the other got a new 2xx response,  *)
(* and both returned the entry of the partition                             *)
C23_Witness ==
    /\ inv[<<1, 1>>].req.url = UrlProduct
    /\ inv[<<1, 1>>].pc = "done"
    /\ inv[<<1, 2>>].pc = "done"
    /\ inv[<<1, 1>>].net = NetFail
    /\ inv[<<1, 2>>].net = NetResp(200, 1)
    /\ inv[<<1, 1>>].result = SeedEntries[UrlProduct]
    /\ inv[<<1, 2>>].result = SeedEntries[UrlProduct]

(* the listeners that ran handleRequest for event e *)
HandledBy(e) == {l \in Listeners : Intercepted(<<e, l>>)}

(* C25: each intercepted GET http(s) fetch event runs handleRequest once,   *)
(* over all fetch listeners, so at most one network fetch is made for it.   *)
C25_OneHandleRequestPerEvent ==
    \A e \in 1..MaxEvents :
        (events[e].dispatched /\ GetHttp(events[e].req)) =>
            /\ Cardinality(HandledBy(e)) = 1
            /\ Cardinality({l \in Listeners : inv[<<e, l>>].fetched}) <= 1

(* the writes of invocation i that are under way *)
PutsBy(i) == {p \in pendingPuts : p.by = i}

(* C29: the strategies only add or overwrite.  A write under way is for the *)
(* request of the invocation that issued it, into the partition chosen for  *)
(* that request, and an invocation issues at most one; a cache-first hit    *)
(* issues no write and no network request; and a step other than a          *)
(* CLEAR_CACHE deletes no partition and no entry, and changes an entry only *)
(* by completing such a write.                                              *)
C29_StrategiesOnlyAddOrOverwrite ==
    /\ [](\A i \in InvIds :
            /\ \A p \in PutsBy(i) :
                  p.req = inv[i].req /\ p.name = TargetCache(inv[i].req)
            /\ Cardinality(PutsBy(i)) <= 1
            /\ inv[i].wrote # "no" => PutsBy(i) = {}
            /\ (RunsStrategy(i, "cacheFirst") /\ inv[i].cached # Undefined) =>
                  ~inv[i].fetched /\ inv[i].wrote = "no" /\ PutsBy(i) = {})
    /\ [][clears' = clears =>
            \A n \in CacheNames :
                /\ caches[n].exists =>
                      /\ caches'[n].exists
                      /\ caches'[n].gen = caches[n].gen
                      /\ DOMAIN caches[n].entries \subseteq DOMAIN caches'[n].entries
                /\ \A u \in DOMAIN caches'[n].entries :
                      caches'[n].entries[u] # Lookup(caches[n].entries, u) =>
                          \E p \in pendingPuts :
                              /\ p \notin pendingPuts'
                              /\ p.name = n /\ p.req.url = u
                              /\ p.resp = caches'[n].entries[u]]_vars

(* a stylesheet of the manifest served to both listeners by cache-first    *)
(* from the static partition, with no network request and no write          *)
C29_Witness ==
    /\ inv[<<1, 1>>].req.url = UrlCss
    /\ inv[<<1, 1>>].result = ManifestEntries[UrlCss]
    /\ ~inv[<<1, 1>>].fetched
    /\ inv[<<1, 2>>].result = ManifestEntries[UrlCss]
    /\ ~inv[<<1, 2>>].fetched
    /\ pendingPuts = {}
    /\ clears = 0

----------------------------------------------------------------------------
(* Properties under cache-store failures (specification SpecFaulty) *)

(* C12: when an operation of the cache store rejects while a request is     *)
(* served, the strategy goes on as on a miss or a skipped write: cache-first *)
(* and stale-while-revalidate still issue the network request, and a        *)
(* network response, when there is one, is the response delivered.          *)
C12_CacheFailureIsAMiss ==
    \A i \in InvIds :
        (inv[i].settled /\ inv[i].cacheError) =>
            /\ StrategyOf(inv[i].req) \in {"cacheFirst", "staleWhileRevalidate"}
                  => inv[i].fetched
            /\ inv[i].net.kind = "net" => inv[i].result = inv[i].net

----------------------------------------------------------------------------
(* Properties of the control channel (specification SpecMessages) *)

Is2xx(resp) == resp.kind = "net" /\ resp.status \in 200..299

(* a run of cacheUrls that has returned *)
Returned(r) == batch[r].pc = "done"

OkPositions(r, u) ==
    {k \in 1..Len(batch[r].outcomes) : batch[r].urls[k] = u /\ Ok(batch[r].outcomes[k])}

StoredUrls(r) == {u \in BatchUrls : OkPositions(r, u) # {}}

LastOk(r, u) ==
    batch[r].outcomes[CHOOSE k \in OkPositions(r, u) : \A j \in OkPositions(r, u) : j <= k]

(* two runs of cacheUrls with the same list got the same answers *)
SameBatchTwice ==
    /\ Returned(1) /\ Returned(2)
    /\ batch[2].urls = batch[1].urls
    /\ batch[2].outcomes = batch[1].outcomes

(* C16: cacheUrls is idempotent: when it ran twice with the same URL list   *)
(* and the same network answers (and no partition was cleared), the dynamic *)
(* partition is as the first run to return left it: one entry per URL that  *)
(* was answered 2xx, holding its last response, beside the entries of other *)
(* URLs.                                                                    *)
C16_CacheUrlsIdempotent ==
    (SameBatchTwice /\ clears = 0) =>
        /\ batch[2].after = batch[1].after
        /\ caches[DYNAMIC_CACHE].entries = batch[1].after
        /\ \A u \in StoredUrls(1) : batch[1].after[u] = LastOk(1, u)
        /\ DOMAIN batch[1].after \subseteq StoredUrls(1) \cup DOMAIN SeedEntries

(* the same two-URL list cached twice over entries of an earlier session:   *)
(* the entry of /products/1 is the response of the network                  *)
C16_Witness ==
    /\ SameBatchTwice
    /\ clears = 0
    /\ batch[1].urls = <<UrlProduct, UrlAbout>>
    /\ batch[1].outcomes = <<NetResp(200, 1), NetResp(200, 1)>>
    /\ DOMAIN caches[DYNAMIC_CACHE].entries = {UrlProduct, UrlAbout, UrlCartCount}
    /\ caches[DYNAMIC_CACHE].entries[UrlProduct] = NetResp(200, 1)
    /\ caches[DYNAMIC_CACHE].entries[UrlCartCount] = SeedEntries[UrlCartCount]

(* the step in which run r learns that the fetch of its URL failed or was   *)
(* answered with a non-2xx response                                         *)
UrlFails(r) ==
    /\ batch[r].pc = "fetch"
    /\ Len(batch'[r].outcomes) = Len(batch[r].outcomes) + 1
    /\ ~Ok(batch'[r].outcomes[Len(batch'[r].outcomes)])

(* C17: in a run of cacheUrls a URL whose fetch fails or is answered        *)
(* non-2xx is skipped and the run goes on: the step leaves every partition  *)
(* as it is, a run that returned has fetched every URL of its list, and     *)
(* (no partition being cleared) every URL answered 2xx, before or after the *)
(* failing one, has a 2xx entry in the dynamic partition.                   *)
C17_FailingUrlIsSkipped ==
    /\ [](\A r \in Batches :
            Returned(r) =>
                /\ Len(batch[r].outcomes) = Len(batch[r].urls)
                /\ clears = 0 =>
                      \A k \in 1..Len(batch[r].urls) :
                          Ok(batch[r].outcomes[k]) =>
                              /\ batch[r].urls[k] \in DOMAIN caches[DYNAMIC_CACHE].entries
                              /\ \E r2 \in Batches :
                                    /\ OkPositions(r2, batch[r].urls[k]) # {}
                                    /\ caches[DYNAMIC_CACHE].entries[batch[r].urls[k]]
                                          \in {batch[r2].outcomes[j] :
                                                  j \in OkPositions(r2, batch[r].urls[k])})
    /\ [][\A r \in Batches :
            UrlFails(r) =>
                /\ caches' = caches
                /\ batch'[r].pc \in {"fetch", "done"}
                /\ batch'[r].pc = "done" => batch[r].k = Len(batch[r].urls)]_vars

(* a run whose first fetch was rejected stored the second URL and left the  *)
(* first URL's entry of an earlier session alone                            *)
C17_Witness ==
    /\ Returned(1)
    /\ batch[2].pc = "idle"
    /\ clears = 0
    /\ batch[1].urls = <<UrlProduct, UrlAbout>>
    /\ batch[1].outcomes = <<NetFail, NetResp(200, 1)>>
    /\ Lookup(caches[DYNAMIC_CACHE].entries, UrlProduct) = SeedEntries[UrlProduct]
    /\ Lookup(caches[DYNAMIC_CACHE].entries, UrlAbout) = NetResp(200, 1)

(* the step that handles a CLEAR_CACHE message *)
ClearCacheHandled == clears' = clears + 1

(* C18: a CLEAR_CACHE message naming partition P deletes P and nothing      *)
(* else: after the step P does not exist, every other partition is as it    *)
(* was, and so are the retry queue and the rest of the worker's state; the  *)
(* step is taken, with the same outcome, when P does not exist.             *)
C18_ClearCacheDeletesOnlyNamed ==
    [][ClearCacheHandled =>
          /\ \E P \in CacheNames :
                /\ ~caches'[P].exists
                /\ caches'[P].entries = NoEntries
                /\ \A n \in CacheNames \ {P} : caches'[n] = caches[n]
          /\ queue' = queue
          /\ batch' = batch]_vars

(* the static partition was cleared: the dynamic partition still holds the  *)
(* entries it had and the retry queue its record                            *)
C18_Witness ==
    /\ clears = 1
    /\ ~caches[STATIC_CACHE].exists
    /\ caches[STATIC_CACHE].gen = 1
    /\ caches[DYNAMIC_CACHE] = Holding(SeedEntries)
    /\ Len(queue) = 1

----------------------------------------------------------------------------
(* Termination (specification SpecTermination) *)

(* a drain pass is under way *)
Draining == sync.pc \notin {"idle", "done"}

(* the step that follows the store read of a pass, the store holding        *)
(* entries                                                                  *)
AfterNonEmptyRead == sync.pc = "getAll" /\ sync' # sync /\ Len(queue) > 0

(* C32: with every network call and store operation settling, a drain pass  *)
(* ends, and it ends after attempting the entries it read: a pass that read *)
(* a store holding entries goes on to replay them; and every handleRequest  *)
(* invocation settles.                                                      *)
C32_DrainAndRequestsTerminate ==
    /\ [][AfterNonEmptyRead => sync'.pc = "replay"]_vars
    /\ (Draining ~> sync.pc = "done")
    /\ \A i \in InvIds : (Intercepted(i) ~> inv[i].settled)

(* the handleRequest half of C32 *)
RequestsTerminate == \A i \in InvIds : (Intercepted(i) ~> inv[i].settled)

(* the drain pass ends *)
DrainTerminates == Draining ~> sync.pc = "done"

----------------------------------------------------------------------------
(* Properties of the add-to-cart buttons (specification SpecCart) *)

(* the request of button b is in flight *)
InFlight(b) == cart[b].pc \in {"fetching", "parsing"}

(* C33: addToCart is guarded per button: a button carries the loading mark  *)
(* exactly while its request is in flight, so the mark is gone when the     *)
(* request has ended, however it ended; an activation of a button that is   *)
(* loading issues no POST, and every activation of a button that is not     *)
(* loading issues one, whatever the other buttons do.                       *)
C33_AddToCartGuarded ==
    /\ [](\A b \in Buttons : cart[b].loading <=> InFlight(b))
    /\ [][\A b \in Buttons :
            /\ cart[b].loading => cart'[b].posts = cart[b].posts
            /\ (~cart[b].loading /\ cart'[b].clicks # cart[b].clicks) =>
                  cart'[b].posts = cart[b].posts + 1 /\ cart'[b].loading
            /\ (InFlight(b) /\ cart'[b].pc = "idle") => ~cart'[b].loading]_vars

(* one button was activated three times while its only POST was in flight   *)
(* and the POST threw; the other button's POST is in flight meanwhile       *)
C33_Witness ==
    /\ cart[1].clicks = 3
    /\ cart[1].posts = 1
    /\ cart[1].last = "rejected"
    /\ ~cart[1].loading
    /\ cart[2].loading
    /\ cart[2].posts = 1

----------------------------------------------------------------------------
(* Properties of the search input (specification SpecSearch) *)

(* C34: the results shown belong to the latest query for which a search was *)
(* issued: the container is never filled by a search older than the one     *)
(* that filled it, and it is not displayed while the input holds fewer than *)
(* two characters.                                                          *)
C34_ResultsOfLatestQuery ==
    /\ [][search'.shown.seq >= search.shown.seq]_vars
    /\ [](search.current = 0 => ~search.visible)

====
